---- MODULE Spec2Model ----
(***************************************************************************)
(* RLProfilePicturesREVAMP: the avatar acquisition and caching pipeline.   *)
(*                                                                         *)
(* AvatarManager owns avatar_cache and runs on the game thread;            *)
(* AvatarDownloader issues HTTP requests whose completions arrive on the   *)
(* HTTP thread and hand work back with gameWrapper->Execute.               *)
(*                                                                         *)
(* Strings are sequences of one-character strings, so that                 *)
(* SanitizeFilename is computed character by character as the code does.   *)
(***************************************************************************)
EXTENDS Integers, Sequences, FiniteSets, Bags, TLC

VARIABLES
    alive,          \* whether the AvatarManager and its downloader still exist
    localId,        \* the locally controlled player's FUniqueNetId
    cvars,          \* the boolean CVars, by name
    avatar_cache,   \* AvatarManager::avatar_cache: id string -> texture
    inflight,       \* bag of HTTP requests sent and not yet completed
    gameQueue,      \* closures handed to gameWrapper->Execute, FIFO
    files,          \* staging files that exist under the temp directory
    remoteWrites,   \* history: LoadAvatar inserts per key since the key was last absent
    nOps,           \* history: events the host and the user have delivered so far
    last            \* history: what the last step did

vars == <<alive, localId, cvars, avatar_cache, inflight, gameQueue, files,
          remoteWrites, nOps, last>>

-----------------------------------------------------------------------------
(* Bounds of the model *)

\* host and user events (replication events, settings changes, avatar
\* selections and removals) delivered in one behaviour
MaxOps == 2

-----------------------------------------------------------------------------
(* Strings *)

InvalidChars == {"<", ">", ":", "\"", "|", "?", "*", "\\", "/"}

\* characters whose code is below 32
ControlChars == {"\t", "\n"}

SanitizeChar(c) == IF c \in InvalidChars \/ c \in ControlChars THEN "_" ELSE c

SanitizeFilename(s) == [i \in 1..Len(s) |-> SanitizeChar(s[i])]

Digits == <<"0", "1", "2", "3", "4", "5", "6", "7", "8", "9">>

\* std::to_string of a one-digit id
to_string(n) == <<Digits[n + 1]>>

-----------------------------------------------------------------------------
(* Identities *)

Steam == "Steam"
Epic == "Epic"
Dingo == "Dingo"
PS4 == "PS4"
NNX == "NNX"
OtherPlatform == "Unknown"

Platforms == {Steam, Epic, Dingo, PS4, NNX}

NetId(p, uid, epic) == [Platform |-> p, Uid |-> uid, EpicAccountId |-> epic]

Steam1 == NetId(Steam, 1, <<>>)
EpicA == NetId(Epic, 0, <<"a">>)
EpicB == NetId(Epic, 0, <<"b">>)
Xbox2 == NetId(Dingo, 2, <<>>)
Psn1 == NetId(PS4, 1, <<>>)
Switch3 == NetId(NNX, 3, <<>>)
Other4 == NetId(OtherPlatform, 4, <<>>)

\* the players of the session
Identities == {Steam1, EpicA, EpicB, Xbox2, Psn1, Switch3}

LocalIds == {Steam1, EpicA}

\* APRI_TA: the fields the plugin reads
PRI(id, name) == [UniqueId |-> id, PlayerName |-> name]

PlayerNameOf(id) ==
    CASE id.Platform = Dingo -> <<"x", "b">>
      [] id.Platform = Epic -> id.EpicAccountId
      [] OTHER -> <<"p">> \o to_string(id.Uid)

PRIs == {PRI(id, PlayerNameOf(id)) : id \in Identities}

PlatformName(p) ==
    CASE p = Steam -> <<"S", "t", "e", "a", "m">>
      [] p = Epic -> <<"E", "p", "i", "c">>
      [] p = Dingo -> <<"X", "b", "o", "x", "O", "n", "e">>
      [] p = PS4 -> <<"P", "S", "4">>
      [] p = NNX -> <<"S", "w", "i", "t", "c", "h">>
      [] OTHER -> <<"U", "n", "k", "n", "o", "w", "n">>

\* UOnline_X::UniqueNetIdToString of the host SDK: Platform|id|splitscreen
UniqueNetIdToString(id) ==
    PlatformName(id.Platform) \o <<"|">>
        \o (IF id.Platform = Epic THEN id.EpicAccountId ELSE to_string(id.Uid))
        \o <<"|", "0">>

\* the key LoadAvatar and AddLocalAvatar derive for an identity
CacheKey(id) == SanitizeFilename(UniqueNetIdToString(id))

-----------------------------------------------------------------------------
(* CVars *)

CVAR_ENABLED == "Enabled"
CVAR_STEAM_ENABLED == "Steam_Enabled"
CVAR_EPIC_ENABLED == "Epic_Enabled"
CVAR_XBOX_ENABLED == "Xbox_Enabled"
CVAR_PSN_ENABLED == "PSN_Enabled"
CVAR_SWITCH_ENABLED == "Switch_Enabled"
CVAR_BRIGHTNESS_ADJUSTMENT_ENABLED == "BrightnessAdjustment_Enabled"
CVAR_LOAD_DEFAULT_AVATARS == "load_default_avatars"

CVarNames == {CVAR_ENABLED, CVAR_STEAM_ENABLED, CVAR_EPIC_ENABLED, CVAR_XBOX_ENABLED,
              CVAR_PSN_ENABLED, CVAR_SWITCH_ENABLED,
              CVAR_BRIGHTNESS_ADJUSTMENT_ENABLED, CVAR_LOAD_DEFAULT_AVATARS}

\* the CVar that the settings offer for a platform
PlatformCVar(p) ==
    CASE p = Steam -> CVAR_STEAM_ENABLED
      [] p = Epic -> CVAR_EPIC_ENABLED
      [] p = Dingo -> CVAR_XBOX_ENABLED
      [] p = PS4 -> CVAR_PSN_ENABLED
      [] p = NNX -> CVAR_SWITCH_ENABLED
      [] OTHER -> "none"

getCVarBool(name) == name \in DOMAIN cvars /\ cvars[name]

\* an enabled test that always passes
enabledAlways == TRUE

\* *enabled: the shared bool bound to the Enabled CVar
enabled == cvars[CVAR_ENABLED]

-----------------------------------------------------------------------------
(* AvatarDownloader: policy and URL *)

\* a policy that does not look at the local player's platform
IsAllowedIgnoringLocal(id) ==
    CASE id.Platform = Steam -> getCVarBool(CVAR_STEAM_ENABLED)
      [] id.Platform = Epic -> getCVarBool(CVAR_EPIC_ENABLED)
      [] id.Platform = Dingo -> getCVarBool(CVAR_XBOX_ENABLED)
      [] id.Platform = PS4 -> getCVarBool(CVAR_PSN_ENABLED)
      [] id.Platform = NNX -> getCVarBool(CVAR_SWITCH_ENABLED)
      [] OTHER -> FALSE

IsAllowed(id) ==
    LET localOnSteam == localId.Platform = Steam
    IN  CASE id.Platform = Steam -> ~localOnSteam /\ getCVarBool(CVAR_STEAM_ENABLED)
          [] id.Platform = Epic -> getCVarBool(CVAR_EPIC_ENABLED)
          [] id.Platform = Dingo -> getCVarBool(CVAR_XBOX_ENABLED)
          [] id.Platform = PS4 -> getCVarBool(CVAR_PSN_ENABLED)
          [] id.Platform = NNX -> getCVarBool(CVAR_SWITCH_ENABLED)
          [] OTHER -> FALSE

\* a URL without the query parameter
NoQuery == ""

\* a URL: path segment, id or name, and the value of the default_enabled query
\* parameter ("true" or "false"), NoQuery where the URL has none
Url(segment, who) ==
    [path |-> segment, who |-> who,
     default_enabled |-> IF cvars[CVAR_LOAD_DEFAULT_AVATARS] THEN "true" ELSE "false"]

\* the empty string
EmptyUrl == [path |-> "", who |-> <<>>, default_enabled |-> NoQuery]

GetURLForID(id) ==
    IF ~IsAllowed(id) THEN EmptyUrl
    ELSE CASE id.Platform = Steam -> Url("/steam/retrieve/", to_string(id.Uid))
           [] id.Platform = Epic -> Url("/epic/retrieve/", id.EpicAccountId)
           [] id.Platform = Dingo -> EmptyUrl
           [] id.Platform = PS4 -> Url("/psn/retrieve/", to_string(id.Uid))
           [] id.Platform = NNX -> Url("/switch/retrieve/", to_string(id.Uid))
           [] OTHER -> EmptyUrl

-----------------------------------------------------------------------------
(* Image bytes and textures *)

NullData == "null"
EmptyData == "empty"
ValidImages == {"imgA", "imgB"}
JunkData == "junk"

\* what an HTTP completion can carry
Bodies == {NullData, EmptyData, JunkData} \cup ValidImages

\* the completions the server can deliver: any body with status 200, and
\* status 404 without a body or with one
Completions == {<<200, b>> : b \in Bodies} \cup {<<404, NullData>>, <<404, "imgA">>}

\* std::shared_ptr<bool>: null, or pointing at a boolean
NullPtr == "nullptr"
PtrTo(b) == IF b THEN "true" ELSE "false"

GetBrightnessEnabled == PtrTo(cvars[CVAR_BRIGHTNESS_ADJUSTMENT_ENABLED])

\* a PNG produced by the processor: the image it was decoded from and whether
\* the gamma curve was applied; ok = FALSE stands for the exception thrown
NoPng == [ok |-> FALSE, img |-> "none", gamma |-> FALSE]

\* a test that also skips the gamma curve when the pointer is null
SkipsBrighteningWhenNull(brightnessEnabled) ==
    brightnessEnabled = NullPtr \/ brightnessEnabled = "false"

\* if (brightnessEnabled && (!*brightnessEnabled)): the gamma curve is skipped
SkipsBrightening(brightnessEnabled) ==
    brightnessEnabled # NullPtr /\ brightnessEnabled = "false"

\* decode, optionally apply the gamma curve, re-encode as PNG
BrightenImage(data, brightnessEnabled) ==
    IF data \notin ValidImages THEN NoPng
    ELSE [ok |-> TRUE, img |-> data, gamma |-> ~SkipsBrightening(brightnessEnabled)]

\* UTexture2DDynamic*: the texture made from a PNG, or the null pointer
NullTex == [img |-> "none", gamma |-> FALSE]
TexOf(png) == [img |-> png.img, gamma |-> png.gamma]

Textures == {NullTex} \cup {[img |-> i, gamma |-> g] : i \in ValidImages, g \in BOOLEAN}

-----------------------------------------------------------------------------
(* Staging files *)

Path(dir, name) == [dir |-> dir, name |-> name]

GetTempAvatarPath(idString) == Path("avatar_", idString)

GetBrightenedLocalAvatarPath == Path("", <<"brightened_local_avatar">>)

GetTempLocalAvatarPath(idString) == Path("local_avatar_", idString)

\* what the filesystem and the image loader can answer while a PNG is staged
\* and turned into a texture
IoOutcomes == {"ok", "openfail", "writefail", "checkfail", "loadfail", "notex"}

-----------------------------------------------------------------------------
(* The cache *)

IsAvatarCached(idString) ==
    idString \in DOMAIN avatar_cache /\ avatar_cache[idString] # NullTex

GetCachedAvatar(idString) ==
    IF idString \in DOMAIN avatar_cache THEN avatar_cache[idString] ELSE NullTex

\* an insert that evicts every other entry
CacheInsertEvicting(cache, idString, tex) == [k \in {idString} |-> tex]

\* an insert that is forgotten
CacheInsertForgotten(cache, idString, tex) == cache

\* avatar_cache[idString] = tex
CacheInsert(cache, idString, tex) ==
    [k \in DOMAIN cache \cup {idString} |-> IF k = idString THEN tex ELSE cache[k]]

\* avatar_cache.erase(idString)
CacheErase(cache, idString) ==
    [k \in DOMAIN cache \ {idString} |-> cache[k]]

EmptyCache == [k \in {} |-> NullTex]

\* avatar_cache.clear()
ClearCache(cache) == EmptyCache

WritesOf(k) == IF k \in DOMAIN remoteWrites THEN remoteWrites[k] ELSE 0

-----------------------------------------------------------------------------
(* Threads *)

\* the game thread runs the hooks and the closures handed to gameWrapper->Execute
GameThread == "game"

\* the thread HttpWrapper runs completion lambdas on
HttpThread == "http"

\* a hand-off that runs the closure on the calling thread
ExecuteOnCaller(queue, closure, caller) ==
    Append(queue, [closure EXCEPT !.thread = caller])

\* gameWrapper->Execute(closure): the closure is queued for the game thread
Execute(queue, closure, caller) ==
    Append(queue, [closure EXCEPT !.thread = GameThread])

\* a closure: what it will call, its captures, and the thread it runs on
Closure(op, id, data, png) ==
    [op |-> op, id |-> id, data |-> data, png |-> png, thread |-> GameThread]

-----------------------------------------------------------------------------
(* What a step did *)

\* sent: HTTP requests issued; applies: calls of SetAvatar with a texture;
\* tex: the texture handed to SetAvatar; wrote: inserts into avatar_cache;
\* hit: the step found its key in the cache and used the entry; old: the entry
\* a forced load found under its key; code, body: the HTTP completion;
\* note: the path taken ("decode": the bytes are no image, "stage": staging the
\* PNG or making the texture failed).
\* thread: the thread the step ran on; cb: invocations of the upload callback;
\* removed: staging files the step deleted; rmcalls: its calls of
\* std::filesystem::remove on the upload staging file; escaped: an exception
\* left the operation.
\* A step that returns before it looks at its identity records the local one.
Ev(op, id) ==
    [op |-> op, id |-> id, note |-> "", sent |-> 0, applies |-> 0, tex |-> NullTex,
     wrote |-> 0, hit |-> FALSE, old |-> NullTex, code |-> 0, body |-> NullData,
     thread |-> GameThread, cb |-> 0, removed |-> 0, rmcalls |-> 0, escaped |-> FALSE,
     event |-> ""]

-----------------------------------------------------------------------------
(* AvatarManager::SetAvatar *)

\* The call across the presentation boundary: SetAvatar refuses a null
\* texture; what the host object graph does with the texture is outside the
\* model, which records the calls.
SetAvatar(id, tex) == IF tex = NullTex THEN 0 ELSE 1

-----------------------------------------------------------------------------
(* AvatarDownloader: requests *)

Request(kind, id, url, png) == [kind |-> kind, id |-> id, url |-> url, png |-> png]

\* the requests DownloadAvatar sends
DownloadAvatar(id) ==
    LET url == GetURLForID(id)
    IN  IF url = EmptyUrl THEN {} ELSE {Request("GET", id, url, NoPng)}

\* the requests DownloadXboxAvatar sends
DownloadXboxAvatar(id, playername) ==
    {Request("GET", id, Url("/xbox/retrieve/", playername), NoPng)}

\* a completion test that forgets the payload check
FetchSucceededAnyBody(http_code, body) == http_code = 200

\* the test the completion lambdas of DownloadAvatar and DownloadXboxAvatar make
FetchSucceeded(http_code, body) ==
    IF http_code # 200 THEN FALSE
    ELSE IF body = NullData \/ body = EmptyData THEN FALSE
    ELSE TRUE

\* a completion lambda that sends the request again when the fetch failed
FetchCompletionRetrying(queue, req, http_code, body) ==
    IF FetchSucceeded(http_code, body)
    THEN [queue |-> Execute(queue, Closure("LoadAvatar", req.id, body, NoPng), HttpThread),
          reqs |-> {}]
    ELSE [queue |-> queue, reqs |-> {req}]

\* the completion lambda of DownloadAvatar / DownloadXboxAvatar: the closure it
\* hands to the game thread and the requests it sends
FetchCompletion(queue, req, http_code, body) ==
    IF FetchSucceeded(http_code, body)
    THEN [queue |-> Execute(queue, Closure("LoadAvatar", req.id, body, NoPng), HttpThread),
          reqs |-> {}]
    ELSE [queue |-> queue, reqs |-> {}]

-----------------------------------------------------------------------------
(* AvatarManager::LoadForPRI *)

\* a comparison that never recognises the local player
IsLocalPlayerNever(lid, priId) == FALSE

\* "Compare the local and PRI unique IDs - skip if same player"
IsLocalPlayer(lid, priId) ==
    lid.Uid = priId.Uid /\ lid.EpicAccountId = priId.EpicAccountId

\* pcOk: the player controller and its PRI exist
LoadForPRI(pri, pcOk) ==
    LET uniqueId == pri.UniqueId
        idString == UniqueNetIdToString(uniqueId)
        tex == GetCachedAvatar(idString)
        none == [reqs |-> {}, applies |-> 0, tex |-> NullTex, hit |-> FALSE,
                 note |-> "nopc"]
    IN  IF ~pcOk THEN none
        ELSE IF IsLocalPlayer(localId, uniqueId) THEN [none EXCEPT !.note = "local"]
        ELSE IF uniqueId.Platform = Dingo
             THEN [none EXCEPT !.reqs = DownloadXboxAvatar(uniqueId, pri.PlayerName),
                               !.note = "xbox"]
        ELSE IF tex # NullTex
             THEN [none EXCEPT !.applies = SetAvatar(uniqueId, tex), !.tex = tex,
                               !.hit = TRUE, !.note = "cached"]
        ELSE [none EXCEPT !.reqs = DownloadAvatar(uniqueId), !.note = "download"]

-----------------------------------------------------------------------------
(* AvatarManager::LoadAvatar and AvatarManager::LoadAvatarDirect *)

\* a staging that takes the texture without looking at what LoadForCanvas
\* returned
StageIgnoringLoadFailure(fs, path, png, io) ==
    CASE io = "openfail" -> [files |-> fs, tex |-> NullTex]
      [] io = "writefail" -> [files |-> fs \cup {path}, tex |-> NullTex]
      [] io = "checkfail" -> [files |-> fs \cup {path}, tex |-> NullTex]
      [] io = "notex" -> [files |-> fs \ {path}, tex |-> NullTex]
      [] OTHER -> [files |-> fs \ {path}, tex |-> TexOf(png)]

\* staging a PNG under `path` and loading it as a texture: the files left
\* behind and the texture obtained
Stage(fs, path, png, io) ==
    CASE io = "openfail" -> [files |-> fs, tex |-> NullTex]
      [] io = "writefail" -> [files |-> fs \cup {path}, tex |-> NullTex]
      [] io = "checkfail" -> [files |-> fs \cup {path}, tex |-> NullTex]
      [] io = "loadfail" -> [files |-> fs \ {path}, tex |-> NullTex]
      [] io = "notex" -> [files |-> fs \ {path}, tex |-> NullTex]
      [] OTHER -> [files |-> fs \ {path}, tex |-> TexOf(png)]

\* a function body without its try block: what is thrown leaves the function
EscapesUnhandled(raised) == raised

\* try { ... } catch (const std::exception&) { log }: nothing thrown inside
\* leaves the function
Escapes(raised) == FALSE

\* a null check that lets every pointer through
IsNullNever(tex) == FALSE

\* if (!tex): the texture pointer is null
IsNull(tex) == tex = NullTex

\* a check that never finds the entry
FoundInCacheNever(idString) == FALSE

\* "Check cache first"
FoundInCache(idString) ==
    idString \in DOMAIN avatar_cache /\ avatar_cache[idString] # NullTex

LoadAvatar(id, data, io) ==
    LET idString == SanitizeFilename(UniqueNetIdToString(id))
        same == [cache |-> avatar_cache, files |-> files,
                 applies |-> 0, tex |-> NullTex, wrote |-> 0, hit |-> FALSE,
                 escaped |-> FALSE, note |-> "decode"]
        brightenedData == BrightenImage(data, GetBrightnessEnabled)
        st == Stage(files, GetTempAvatarPath(idString), brightenedData, io)
    IN  IF FoundInCache(idString)
        THEN [same EXCEPT !.applies = SetAvatar(id, avatar_cache[idString]),
                          !.tex = avatar_cache[idString], !.hit = TRUE,
                          !.note = "cached"]
        ELSE IF ~brightenedData.ok THEN [same EXCEPT !.escaped = Escapes(TRUE)]
        ELSE IF IsNull(st.tex) THEN [same EXCEPT !.files = st.files, !.note = "stage"]
        ELSE [same EXCEPT !.cache = CacheInsert(avatar_cache, idString, st.tex),
                          !.files = st.files,
                          !.applies = SetAvatar(id, st.tex), !.tex = st.tex,
                          !.wrote = 1, !.note = "loaded"]

\* a cache check that ignores forceUpdate
UsesCachedEntryAlways(idString, forceUpdate) ==
    idString \in DOMAIN avatar_cache /\ avatar_cache[idString] # NullTex

\* "Check cache first (unless forcing update)"
UsesCachedEntry(idString, forceUpdate) ==
    ~forceUpdate /\ idString \in DOMAIN avatar_cache /\ avatar_cache[idString] # NullTex

LoadAvatarDirect(id, idString, alreadyProcessedData, forceUpdate, io) ==
    LET same == [cache |-> avatar_cache, files |-> files,
                 applies |-> 0, tex |-> NullTex, wrote |-> 0, hit |-> FALSE,
                 old |-> GetCachedAvatar(idString), note |-> "stage"]
        st == Stage(files, GetTempAvatarPath(idString), alreadyProcessedData, io)
    IN  IF UsesCachedEntry(idString, forceUpdate)
        THEN [same EXCEPT !.applies = SetAvatar(id, avatar_cache[idString]),
                          !.tex = avatar_cache[idString], !.hit = TRUE,
                          !.note = "cached"]
        ELSE IF IsNull(st.tex) THEN [same EXCEPT !.files = st.files]
        ELSE [same EXCEPT !.cache = CacheInsert(avatar_cache, idString, st.tex),
                          !.files = st.files,
                          !.applies = SetAvatar(id, st.tex), !.tex = st.tex,
                          !.wrote = 1, !.note = "loaded"]

-----------------------------------------------------------------------------
(* AvatarDownloader::UploadToCDN *)

UploadUrl(epic_id) == [path |-> "/epic/upload/", who |-> epic_id, default_enabled |-> NoQuery]

\* response bodies, as the words they contain
UploadBodies == {<<>>, <<"success", "true">>, <<"success", "false">>}

Contains(data, word) == \E i \in 1..Len(data) : data[i] = word

\* the success test of the upload completion
UploadSucceeded(http_code, data) ==
    data # <<>> /\ http_code = 200 /\ Contains(data, "success") /\ Contains(data, "true")

\* an empty std::filesystem::path
NoPath == Path("", <<>>)

\* an UploadToCDN that returns on invalid arguments without its callback
UploadToCDNSilentRefusal(filePath, epic_id, id, png) ==
    IF filePath = NoPath \/ epic_id = <<>>
    THEN [reqs |-> {}, cb |-> 0]
    ELSE [reqs |-> {Request("POST", id, UploadUrl(epic_id), png)}, cb |-> 0]

\* UploadToCDN up to SendCurlRequest: the request sent, and the callback
\* invocations made before it returns
UploadToCDN(filePath, epic_id, id, png) ==
    IF filePath = NoPath \/ epic_id = <<>>
    THEN [reqs |-> {}, cb |-> 1]
    ELSE [reqs |-> {Request("POST", id, UploadUrl(epic_id), png)}, cb |-> 0]

\* the completion lambda of UploadToCDN: success test, remove(filePath), callback
UploadCompleted(fs, filePath, http_code, data) ==
    [success |-> UploadSucceeded(http_code, data),
     files |-> fs \ {filePath},
     removed |-> IF filePath \in fs THEN 1 ELSE 0,
     rmcalls |-> 1,
     cb |-> 1]

\* a callback that applies the local image only after a successful upload
UploadCallbackOnlyOnSuccess(queue, fs, id, png, tempPath, success, caller) ==
    [queue |-> IF success
               THEN Execute(queue, Closure("LoadAvatarDirect", id, NullData, png), caller)
               ELSE queue,
     files |-> fs \ {tempPath},
     removed |-> IF tempPath \in fs THEN 1 ELSE 0,
     rmcalls |-> 1]

\* the callback AddLocalAvatar gives UploadToCDN: hand LoadAvatarDirect to the
\* game thread whatever `success` is, then remove(tempPath)
UploadCallback(queue, fs, id, png, tempPath, success, caller) ==
    [queue |-> Execute(queue, Closure("LoadAvatarDirect", id, NullData, png), caller),
     files |-> fs \ {tempPath},
     removed |-> IF tempPath \in fs THEN 1 ELSE 0,
     rmcalls |-> 1]

-----------------------------------------------------------------------------
(* Initial state: the plugin is loaded, the CVars hold their registered defaults *)

Init ==
    /\ alive = TRUE
    /\ localId \in LocalIds
    /\ cvars = [n \in CVarNames |-> TRUE]
    /\ avatar_cache = EmptyCache
    /\ inflight = EmptyBag
    /\ gameQueue = <<>>
    /\ files = {}
    /\ remoteWrites = [k \in {} |-> 0]
    /\ nOps = 0
    /\ last = Ev("Init", localId)

\* one more event from the host or the user
Event ==
    /\ nOps < MaxOps
    /\ nOps' = nOps + 1

-----------------------------------------------------------------------------
(* Settings *)

\* a checkbox of the settings window flips a CVar
SetCVar(name) ==
    /\ Event
    /\ cvars' = [cvars EXCEPT ![name] = ~cvars[name]]
    /\ last' = Ev("SetCVar", localId)
    /\ UNCHANGED <<alive, localId, avatar_cache, inflight, gameQueue, files, remoteWrites>>

-----------------------------------------------------------------------------
(* Event hooks *)

\* the hook of `event` calls avatarManager->LoadForPRI(pri)
CallLoadForPRI(pri, pcOk, event) ==
    LET r == LoadForPRI(pri, pcOk)
    IN  /\ inflight' = inflight (+) SetToBag(r.reqs)
        /\ last' = [Ev("LoadForPRI", IF pcOk THEN pri.UniqueId ELSE localId) EXCEPT
                        !.sent = Cardinality(r.reqs), !.applies = r.applies,
                        !.tex = r.tex, !.hit = r.hit, !.note = r.note,
                        !.event = event]
        /\ UNCHANGED <<avatar_cache, gameQueue, files, remoteWrites>>

\* the hook returns before it reaches LoadForPRI
HookReturns(why) ==
    /\ last' = [Ev("HookReturns", localId) EXCEPT !.note = why]
    /\ UNCHANGED <<avatar_cache, inflight, gameQueue, files, remoteWrites>>

\* "Function TAGame.PRI_TA.ReplicatedEvent"
ReplicatedEvent(pri, VarName, isLocalPRI, pcOk) ==
    /\ Event
    /\ IF ~enabled THEN HookReturns("disabled")
       ELSE IF isLocalPRI THEN HookReturns("localPRI")
       ELSE IF VarName # "PlayerName" THEN HookReturns("VarName")
       ELSE CallLoadForPRI(pri, pcOk, "ReplicatedEvent")
    /\ UNCHANGED <<alive, localId, cvars>>

\* "Function TAGame.PRI_TA.UpdatePlayerAvatar"
UpdatePlayerAvatar(pri, isLocalPRI, pcOk) ==
    /\ Event
    /\ IF ~enabled THEN HookReturns("disabled")
       ELSE IF isLocalPRI THEN HookReturns("localPRI")
       ELSE CallLoadForPRI(pri, pcOk, "UpdatePlayerAvatar")
    /\ UNCHANGED <<alive, localId, cvars>>

\* APRI_TA::IsLocalPlayerPRI is the host's answer; it can only be true of a
\* PRI that carries the local identity
LocalPRIAnswers(pri) == IF pri.UniqueId = localId THEN BOOLEAN ELSE {FALSE}

-----------------------------------------------------------------------------
(* HTTP completions *)

\* the completion lambda of DownloadAvatar / DownloadXboxAvatar, on the HTTP thread
AvatarResponse(req, http_code, body) ==
    /\ BagIn(req, inflight)
    /\ req.kind = "GET"
    /\ LET r == FetchCompletion(gameQueue, req, http_code, body)
       IN  /\ inflight' = (inflight (-) SetToBag({req})) (+) SetToBag(r.reqs)
           /\ gameQueue' = r.queue
           /\ last' = [Ev("AvatarResponse", req.id) EXCEPT
                           !.code = http_code, !.body = body,
                           !.sent = Cardinality(r.reqs), !.thread = HttpThread]
    /\ UNCHANGED <<alive, localId, cvars, avatar_cache, files, remoteWrites, nOps>>

\* the completion lambda of UploadToCDN, on the HTTP thread, and the callback
\* of AddLocalAvatar it calls
UploadResponse(req, http_code, data) ==
    /\ BagIn(req, inflight)
    /\ req.kind = "POST"
    /\ inflight' = inflight (-) SetToBag({req})
    /\ LET tempPath == GetBrightenedLocalAvatarPath
           done == UploadCompleted(files, tempPath, http_code, data)
           cbk == UploadCallback(gameQueue, done.files, req.id, req.png, tempPath,
                                 done.success, HttpThread)
       IN  /\ files' = cbk.files
           /\ gameQueue' = cbk.queue
           /\ last' = [Ev("UploadResponse", req.id) EXCEPT
                           !.code = http_code,
                           !.hit = done.success,
                           !.thread = HttpThread,
                           !.cb = done.cb,
                           !.removed = done.removed + cbk.removed,
                           !.rmcalls = done.rmcalls + cbk.rmcalls]
    /\ UNCHANGED <<alive, localId, cvars, avatar_cache, remoteWrites, nOps>>

-----------------------------------------------------------------------------
(* Game thread: closures handed over with gameWrapper->Execute *)

\* the closure queued by a successful fetch: loadAvatarCallback -> LoadAvatar
RunLoadAvatar(io) ==
    /\ gameQueue # <<>>
    /\ Head(gameQueue).op = "LoadAvatar"
    /\ LET c == Head(gameQueue)
           key == CacheKey(c.id)
           r == LoadAvatar(c.id, c.data, io)
       IN  /\ avatar_cache' = r.cache
           /\ files' = r.files
           /\ remoteWrites' =
                IF r.wrote = 1
                THEN [k \in DOMAIN remoteWrites \cup {key} |->
                        IF k = key THEN WritesOf(key) + 1 ELSE remoteWrites[k]]
                ELSE remoteWrites
           /\ last' = [Ev("LoadAvatar", c.id) EXCEPT
                           !.applies = r.applies, !.tex = r.tex, !.wrote = r.wrote,
                           !.hit = r.hit, !.note = r.note, !.escaped = r.escaped,
                           !.thread = c.thread]
    /\ gameQueue' = Tail(gameQueue)
    /\ UNCHANGED <<alive, localId, cvars, inflight, nOps>>

\* the closure queued by the upload callback: LoadAvatarDirect(..., true)
RunLoadAvatarDirect(io) ==
    /\ gameQueue # <<>>
    /\ Head(gameQueue).op = "LoadAvatarDirect"
    /\ LET c == Head(gameQueue)
           idStr == SanitizeFilename(UniqueNetIdToString(c.id))
           r == LoadAvatarDirect(c.id, idStr, c.png, TRUE, io)
       IN  /\ avatar_cache' = r.cache
           /\ files' = r.files
           /\ last' = [Ev("LoadAvatarDirect", c.id) EXCEPT
                           !.applies = r.applies, !.tex = r.tex, !.wrote = r.wrote,
                           !.hit = r.hit, !.old = r.old, !.note = r.note,
                           !.thread = c.thread]
    /\ gameQueue' = Tail(gameQueue)
    /\ UNCHANGED <<alive, localId, cvars, inflight, remoteWrites, nOps>>

\* the closure queued by AddLocalAvatar: upload for an Epic identity, else
\* LoadAvatarDirect(..., true) at once
RunAddLocalApply(io) ==
    /\ gameQueue # <<>>
    /\ Head(gameQueue).op = "AddLocalApply"
    /\ LET c == Head(gameQueue)
           uniqueId == c.id
           idString == SanitizeFilename(UniqueNetIdToString(uniqueId))
           tempPath == GetBrightenedLocalAvatarPath
           epic_id == uniqueId.EpicAccountId
           staged == files \cup {tempPath}
           u == UploadToCDN(tempPath, epic_id, uniqueId, c.png)
           cbk == UploadCallback(Tail(gameQueue), staged, uniqueId, c.png, tempPath,
                                 FALSE, c.thread)
           r == LoadAvatarDirect(uniqueId, idString, c.png, TRUE, io)
       IN  IF uniqueId.Platform = Epic
           THEN IF io = "openfail"
                THEN \* the temp file cannot be created
                     /\ last' = [Ev("AddLocalApply", uniqueId) EXCEPT
                                     !.note = "openfail", !.thread = c.thread]
                     /\ gameQueue' = Tail(gameQueue)
                     /\ UNCHANGED <<avatar_cache, files, inflight>>
                ELSE IF u.reqs = {}
                THEN \* UploadToCDN refuses; callback(false) runs at once
                     /\ last' = [Ev("AddLocalApply", uniqueId) EXCEPT
                                     !.note = "refused", !.thread = c.thread,
                                     !.cb = u.cb, !.removed = cbk.removed,
                                     !.rmcalls = cbk.rmcalls]
                     /\ gameQueue' = IF u.cb = 1 THEN cbk.queue ELSE Tail(gameQueue)
                     /\ files' = IF u.cb = 1 THEN cbk.files ELSE staged
                     /\ UNCHANGED <<avatar_cache, inflight>>
                ELSE /\ last' = [Ev("AddLocalApply", uniqueId) EXCEPT
                                     !.sent = Cardinality(u.reqs), !.note = "upload",
                                     !.thread = c.thread, !.cb = u.cb]
                     /\ files' = staged
                     /\ inflight' = inflight (+) SetToBag(u.reqs)
                     /\ gameQueue' = Tail(gameQueue)
                     /\ UNCHANGED avatar_cache
           ELSE /\ avatar_cache' = r.cache
                /\ files' = r.files
                /\ last' = [Ev("LoadAvatarDirect", uniqueId) EXCEPT
                                !.applies = r.applies, !.tex = r.tex, !.wrote = r.wrote,
                                !.hit = r.hit, !.old = r.old, !.note = r.note,
                                !.thread = c.thread]
                /\ gameQueue' = Tail(gameQueue)
                /\ UNCHANGED inflight
    /\ UNCHANGED <<alive, localId, cvars, remoteWrites, nOps>>

-----------------------------------------------------------------------------
(* Local avatar *)

\* what the selected file holds; "missing": it cannot be read
LocalFiles == {"missing", JunkData} \cup ValidImages

ValidUniqueId(id) == ~(id.Uid = 0 /\ id.EpicAccountId = <<>>)

\* AvatarManager::AddLocalAvatar called on `thread`
\* hostOk: the player controller and the vanity manager exist
AddLocalAvatarOn(file, hostOk, thread) ==
    LET uniqueId == localId
        processedData == BrightenImage(file, GetBrightnessEnabled)
        threw == hostOk /\ ValidUniqueId(uniqueId) /\ file # "missing"
                    /\ ~processedData.ok
    IN  IF ~hostOk \/ ~ValidUniqueId(uniqueId) \/ file = "missing" \/ ~processedData.ok
        THEN /\ last' = [Ev("AddLocalAvatar", uniqueId) EXCEPT
                             !.note = "fail", !.thread = thread,
                             !.escaped = threw /\ Escapes(threw)]
             /\ UNCHANGED gameQueue
        ELSE /\ last' = [Ev("AddLocalAvatar", uniqueId) EXCEPT
                             !.note = "queued", !.thread = thread]
             /\ gameQueue' = Execute(gameQueue,
                                     Closure("AddLocalApply", uniqueId, NullData,
                                             processedData),
                                     thread)

\* the settings button and the main-menu hook with an avatar path selected
AddLocalAvatar(file, hostOk) ==
    /\ Event
    /\ AddLocalAvatarOn(file, hostOk, GameThread)
    /\ UNCHANGED <<alive, localId, cvars, avatar_cache, inflight, files, remoteWrites>>

-----------------------------------------------------------------------------
(* Startup avatar *)

\* the avatar-path CVar as LoadLocalAvatarFallback finds it: "nopath" when no
\* file is selected, else what the selected file holds
FallbackFiles == {"nopath", "imgA"}

\* RLProfilePicturesREVAMP::LoadLocalAvatarFallback called on `thread`
LoadLocalAvatarFallback(file, hostOk, thread) ==
    IF file = "nopath"
    THEN /\ last' = [Ev("LoadLocalAvatarFallback", localId) EXCEPT
                         !.note = "nopath", !.thread = thread]
         /\ UNCHANGED gameQueue
    ELSE AddLocalAvatarOn(file, hostOk, thread)

\* the URL LoadEpicAvatarFromCDN fetches: it carries no default_enabled parameter
StartupUrl(epicId) == [path |-> "/epic/retrieve/", who |-> epicId, default_enabled |-> NoQuery]

\* the closure LoadStartupAvatar hands to the game thread, run there: at onLoad,
\* and from the main-menu hook when no avatar path is selected
LoadStartupAvatar(file, hostOk) ==
    /\ Event
    /\ LET epicId == localId.EpicAccountId
       IN  IF ~enabled
           THEN /\ last' = [Ev("LoadStartupAvatar", localId) EXCEPT !.note = "disabled"]
                /\ UNCHANGED <<gameQueue, inflight>>
           ELSE IF localId.Platform = Epic /\ epicId # <<>>
           THEN \* LoadEpicAvatarFromCDN
                /\ inflight' = inflight (+)
                        SetToBag({Request("GETLOCAL", localId, StartupUrl(epicId), NoPng)})
                /\ last' = [Ev("LoadStartupAvatar", localId) EXCEPT
                                !.note = "cdn", !.sent = 1]
                /\ UNCHANGED gameQueue
           ELSE /\ LoadLocalAvatarFallback(file, hostOk, GameThread)
                /\ UNCHANGED inflight
    /\ UNCHANGED <<alive, localId, cvars, avatar_cache, files, remoteWrites>>

\* the completion lambda of LoadEpicAvatarFromCDN, on the HTTP thread
StartupResponse(req, http_code, body, file, hostOk) ==
    /\ BagIn(req, inflight)
    /\ req.kind = "GETLOCAL"
    /\ inflight' = inflight (-) SetToBag({req})
    /\ IF http_code # 200 \/ body = NullData \/ body = EmptyData
       THEN LoadLocalAvatarFallback(file, hostOk, HttpThread)
       ELSE /\ gameQueue' = Execute(gameQueue,
                                    Closure("ApplyEpicLocal", req.id, body, NoPng),
                                    HttpThread)
            /\ last' = [Ev("StartupResponse", req.id) EXCEPT
                            !.code = http_code, !.body = body, !.thread = HttpThread]
    /\ UNCHANGED <<alive, localId, cvars, avatar_cache, files, remoteWrites, nOps>>

\* the closure queued by that completion: brighten, stage under the local
\* prefix, load as a texture, hand it to the player's avatar component, remove
\* the staged file; the cache is not touched
RunApplyEpicLocal(io) ==
    /\ gameQueue # <<>>
    /\ Head(gameQueue).op = "ApplyEpicLocal"
    /\ LET c == Head(gameQueue)
           brightenedData == BrightenImage(c.data, GetBrightnessEnabled)
           st == Stage(files, GetTempLocalAvatarPath(c.id.EpicAccountId),
                       brightenedData, io)
           tex == IF brightenedData.ok THEN st.tex ELSE NullTex
       IN  /\ last' = [Ev("ApplyEpicLocal", c.id) EXCEPT
                           !.note = IF tex = NullTex THEN "fail" ELSE "applied",
                           !.tex = tex, !.thread = c.thread,
                           !.escaped = ~brightenedData.ok /\ Escapes(TRUE)]
    /\ gameQueue' = Tail(gameQueue)
    /\ UNCHANGED <<alive, localId, cvars, avatar_cache, inflight, files, remoteWrites, nOps>>

\* avatarFound: controller and vanity manager exist and GetAvatar returns a component
RemoveLocalAvatar(avatarFound) ==
    /\ Event
    /\ LET uniqueId == localId
           idString == UniqueNetIdToString(uniqueId)
       IN  IF ~avatarFound \/ ~ValidUniqueId(uniqueId)
           THEN /\ last' = [Ev("RemoveLocalAvatar", uniqueId) EXCEPT !.note = "fail"]
                /\ UNCHANGED <<avatar_cache, remoteWrites>>
           ELSE /\ avatar_cache' = CacheErase(avatar_cache, idString)
                /\ remoteWrites' = [k \in DOMAIN remoteWrites \ {idString} |-> remoteWrites[k]]
                /\ last' = [Ev("RemoveLocalAvatar", uniqueId) EXCEPT !.note = "removed"]
    /\ UNCHANGED <<alive, localId, cvars, inflight, gameQueue, files>>

\* A public operation of AvatarManager (no call of it is in the sources).
\* found: the game event, the PRI, the avatar component and the data store
\* exist; the texture of the player is then detached
RemoveUserAvatar(id, found) ==
    /\ Event
    /\ last' = IF found
               THEN [Ev("RemoveUserAvatar", id) EXCEPT !.note = "removed"]
               ELSE [Ev("RemoveUserAvatar", localId) EXCEPT !.note = "fail"]
    /\ UNCHANGED <<alive, localId, cvars, avatar_cache, inflight, gameQueue, files, remoteWrites>>

-----------------------------------------------------------------------------

Requests == BagToSet(inflight)

\* Inputs of a step that returns early do not change what it does; one
\* representative of each early return is enumerated.
\* A hook returns early for a local PRI, another variable, a missing controller.
HookInputs(pri, VarName, isLocalPRI, pcOk) ==
    (isLocalPRI \/ VarName # "PlayerName" \/ ~pcOk)
        => /\ pri.UniqueId = localId
           /\ ~(isLocalPRI /\ VarName # "PlayerName")
           /\ ~(isLocalPRI /\ ~pcOk)
           /\ ~(VarName # "PlayerName" /\ ~pcOk)

\* AddLocalAvatar returns before it reads the file when the host objects are missing
LocalInputs(file, hostOk) == ~hostOk => file = "missing"

\* RemoveUserAvatar returns before it uses the id when the host objects are missing
RemoveInputs(id, found) == ~found => id = localId

\* a successful startup fetch does not look at the avatar path
StartupInputs(http_code, body, file, hostOk) ==
    (http_code = 200 /\ body \notin {NullData, EmptyData}) => (file = "nopath" /\ hostOk)

\* whether the closure reaches the staging of a PNG
ReachesStaging(c) ==
    CASE c.op = "LoadAvatar" ->
            ~FoundInCache(CacheKey(c.id)) /\ c.data \in ValidImages
      [] c.op = "ApplyEpicLocal" -> c.data \in ValidImages
      [] OTHER -> TRUE

\* A failed verification leaves what a failed write leaves, and a missing
\* texture what a failed image load leaves; a closure that does not reach the
\* staging does not look at the filesystem.
IoInputs(io) ==
    /\ gameQueue # <<>>
    /\ io \in {"ok", "openfail", "writefail", "loadfail"}
    /\ ~ReachesStaging(Head(gameQueue)) => io = "ok"

Next ==
    \/ \E n \in CVarNames : SetCVar(n)
    \/ \E pri \in PRIs, v \in {"PlayerName", "Score"}, pcOk \in BOOLEAN :
          \E l \in LocalPRIAnswers(pri) :
             HookInputs(pri, v, l, pcOk) /\ ReplicatedEvent(pri, v, l, pcOk)
    \/ \E pri \in PRIs, pcOk \in BOOLEAN :
          \E l \in LocalPRIAnswers(pri) :
             HookInputs(pri, "PlayerName", l, pcOk) /\ UpdatePlayerAvatar(pri, l, pcOk)
    \/ \E req \in Requests, c \in Completions : AvatarResponse(req, c[1], c[2])
    \/ \E req \in Requests, c \in {200, 404}, d \in UploadBodies :
          UploadResponse(req, c, d)
    \/ \E io \in IoOutcomes : IoInputs(io) /\ RunLoadAvatar(io)
    \/ \E io \in IoOutcomes : IoInputs(io) /\ RunLoadAvatarDirect(io)
    \/ \E io \in IoOutcomes : IoInputs(io) /\ RunAddLocalApply(io)
    \/ \E f \in LocalFiles, hostOk \in BOOLEAN :
          LocalInputs(f, hostOk) /\ AddLocalAvatar(f, hostOk)
    \/ \E found \in BOOLEAN : RemoveLocalAvatar(found)
    \/ \E id \in Identities, found \in BOOLEAN :
          RemoveInputs(id, found) /\ RemoveUserAvatar(id, found)
    \/ \E f \in FallbackFiles, hostOk \in BOOLEAN : LoadStartupAvatar(f, hostOk)
    \/ \E req \in Requests, c \in Completions, f \in FallbackFiles, hostOk \in BOOLEAN :
          StartupInputs(c[1], c[2], f, hostOk) /\ StartupResponse(req, c[1], c[2], f, hostOk)
    \/ \E io \in IoOutcomes : IoInputs(io) /\ RunApplyEpicLocal(io)

Spec == Init /\ [][Next]_vars

-----------------------------------------------------------------------------
(* Claims *)

\* number of avatar GETs outstanding for an identity
RECURSIVE CopiesOver(_)
CopiesOver(rs) ==
    IF rs = {} THEN 0
    ELSE LET r == CHOOSE x \in rs : TRUE
         IN  CopiesIn(r, inflight) + CopiesOver(rs \ {r})

Outstanding(id) ==
    CopiesOver({r \in BagToSet(inflight) : r.kind = "GET" /\ r.id = id})

\* C1: when LoadForPRI runs for an identity whose platform's enable flag is
\* false, it issues no HTTP request and does not modify the cache (all five
\* platforms, the name-based Xbox path included).
C1_DisabledPlatformSendsNothing ==
    (/\ last.op = "LoadForPRI"
     /\ last.id.Platform \in Platforms
     /\ ~cvars[PlatformCVar(last.id.Platform)])
        => last.sent = 0 /\ last.wrote = 0

\* C2: LoadForPRI for a PRI that carries the local player's identity leaves
\* the set of outstanding HTTP requests as it was.
C2_LocalIdentityNeverFetched ==
    [][(last'.op = "LoadForPRI" /\ last'.id = localId)
          => inflight' = inflight /\ last'.sent = 0]_vars

C2_Witness ==
    /\ last.op = "LoadForPRI"
    /\ last.note = "local"
    /\ last.id = localId
    /\ localId = EpicA
    /\ cvars[CVAR_EPIC_ENABLED]

\* C3: LoadForPRI for an identity whose key holds the image of an earlier
\* remote load issues no HTTP request and calls SetAvatar once, with the
\* cached image.
C3_ResidentKeyServedFromCache ==
    (/\ last.op = "LoadForPRI"
     /\ last.note # "nopc"
     /\ WritesOf(CacheKey(last.id)) >= 1
     /\ IsAvatarCached(CacheKey(last.id)))
        => /\ last.sent = 0
           /\ last.applies = 1
           /\ last.tex = avatar_cache[CacheKey(last.id)]

\* C4: a fetch completion hands LoadAvatar to the game thread if and only if
\* the status is 200 and the payload is present and non-empty; any other
\* completion leaves the cache, the staging files and the game thread's queue
\* unchanged, so nothing is applied because of it.
C4_SuccessIffOkAndPayload ==
    [][last'.op = "AvatarResponse" =>
          LET ok == last'.code = 200 /\ last'.body \notin {NullData, EmptyData}
          IN  /\ avatar_cache' = avatar_cache
              /\ files' = files
              /\ ok => /\ Len(gameQueue') = Len(gameQueue) + 1
                       /\ gameQueue'[Len(gameQueue')].op = "LoadAvatar"
                       /\ gameQueue'[Len(gameQueue')].id = last'.id
                       /\ gameQueue'[Len(gameQueue')].data = last'.body
              /\ ~ok => gameQueue' = gameQueue]_vars

C4_Witness ==
    /\ last.op = "AvatarResponse"
    /\ last.code = 200
    /\ last.body = EmptyData
    /\ gameQueue = <<>>
    /\ avatar_cache = EmptyCache

\* C5: when the game thread processes a successful completion for an identity
\* whose key is absent, and decoding, staging and texture creation succeed, the
\* cache gains exactly one entry, under the sanitized id string of that
\* identity, holding the texture of the normalized image, and SetAvatar is
\* called exactly once for that identity with that texture.
C5_OneInsertOneApply ==
    [][(/\ gameQueue # <<>>
        /\ RunLoadAvatar("ok")
        /\ Head(gameQueue).data \in ValidImages
        /\ ~IsAvatarCached(SanitizeFilename(UniqueNetIdToString(Head(gameQueue).id))))
          => LET c == Head(gameQueue)
                 k == SanitizeFilename(UniqueNetIdToString(c.id))
                 t == TexOf(BrightenImage(c.data, GetBrightnessEnabled))
             IN  /\ DOMAIN avatar_cache' = DOMAIN avatar_cache \cup {k}
                 /\ avatar_cache'[k] = t
                 /\ \A j \in DOMAIN avatar_cache : avatar_cache'[j] = avatar_cache[j]
                 /\ remoteWrites'[k] = 1
                 /\ last'.id = c.id /\ last'.wrote = 1
                 /\ last'.applies = 1 /\ last'.tex = t]_vars

C5_Witness ==
    /\ nOps = 1
    /\ last.op = "LoadAvatar"
    /\ last.id = EpicB
    /\ last.wrote = 1
    /\ last.applies = 1
    /\ DOMAIN avatar_cache = {<<"E", "p", "i", "c", "_", "b", "_", "0">>}
    /\ inflight = EmptyBag
    /\ gameQueue = <<>>

\* C6: at any time at most one avatar fetch per identity is outstanding.
C6_AtMostOneFetchPerKey ==
    \A id \in Identities : Outstanding(id) <= 1

\* C7: the completions of remote loads for one key insert into the cache at
\* most once while the key stays in the cache; a completion that finds the
\* entry inserts nothing and calls SetAvatar once with the cached texture,
\* the one insert for the key having been made by an earlier completion.
C7_OneCacheWritePerKey ==
    /\ \A k \in DOMAIN remoteWrites : remoteWrites[k] <= 1
    /\ (last.op = "LoadAvatar" /\ last.hit)
          => /\ last.wrote = 0
             /\ last.applies = 1
             /\ last.tex = avatar_cache[CacheKey(last.id)]
             /\ WritesOf(CacheKey(last.id)) = 1

C7_Witness ==
    /\ nOps = 2
    /\ last.op = "LoadAvatar"
    /\ last.hit
    /\ last.wrote = 0
    /\ WritesOf(CacheKey(last.id)) = 1

\* C8: a forced local load (LoadAvatarDirect with forceUpdate = true) whose
\* staging and texture creation succeed leaves, under the local identity's
\* key, the texture of the new image, whatever entry was there before.
C8_ForcedLoadReplacesEntry ==
    [][(/\ gameQueue # <<>>
        /\ \/ RunLoadAvatarDirect("ok")
           \/ RunAddLocalApply("ok") /\ Head(gameQueue).id.Platform # Epic)
          => LET c == Head(gameQueue)
                 k == SanitizeFilename(UniqueNetIdToString(c.id))
             IN  /\ k \in DOMAIN avatar_cache'
                 /\ avatar_cache'[k] = TexOf(c.png)
                 /\ avatar_cache'[k] # NullTex
                 /\ last'.applies = 1 /\ last'.tex = TexOf(c.png)]_vars

C8_Witness ==
    /\ last.op = "LoadAvatarDirect"
    /\ last.note = "loaded"
    /\ last.old # NullTex
    /\ last.old # last.tex
    /\ IsAvatarCached(CacheKey(localId))
    /\ GetCachedAvatar(CacheKey(localId)) = last.tex

\* C9: after RemoveLocalAvatar has removed the local avatar, the cache holds
\* no entry under the key AddLocalAvatar inserts the local avatar with.
C9_RemoveLocalClearsEntry ==
    (last.op = "RemoveLocalAvatar" /\ last.note = "removed")
        => ~IsAvatarCached(CacheKey(localId))

\* C10: after RemoveUserAvatar has removed a remote player's avatar, the
\* cache holds no entry under that player's key.
C10_RemoveUserClearsEntry ==
    (last.op = "RemoveUserAvatar" /\ last.note = "removed" /\ last.id # localId)
        => ~IsAvatarCached(CacheKey(last.id))

\* arguments UploadToCDN can be called with
UploadArgs ==
    {<<p, e>> : p \in {NoPath, GetBrightenedLocalAvatarPath},
                e \in {<<>>, EpicA.EpicAccountId, EpicB.EpicAccountId}}

\* C11: every call of UploadToCDN invokes the completion callback exactly
\* once: at once and without a request when the arguments are refused, else
\* not before the request completes and once when it does, whatever the
\* HTTP status and the response body.
C11_UploadCallbackExactlyOnce ==
    /\ \A a \in UploadArgs :
          LET u == UploadToCDN(a[1], a[2], localId, NoPng)
          IN  /\ u.cb + Cardinality(u.reqs) = 1
              /\ \A r \in u.reqs, c \in {200, 404}, d \in UploadBodies :
                    UploadCompleted(files, a[1], c, d).cb = 1
    /\ last.op = "AddLocalApply" /\ last.note = "upload" =>
          last.cb = 0 /\ last.sent = 1
    /\ last.op = "AddLocalApply" /\ last.note = "refused" =>
          last.cb = 1 /\ last.sent = 0
    /\ last.op = "UploadResponse" => last.cb = 1

\* an upload was answered with an error status and the callback has run
C11_Witness ==
    /\ last.op = "UploadResponse"
    /\ last.code = 404
    /\ last.cb = 1
    /\ ~last.hit

\* C12: the completion of an upload staged by AddLocalAvatar deletes the
\* staged file, once.
C12_StagedFileDeletedOncePerUpload ==
    last.op = "UploadResponse" => last.removed = 1

\* the game thread runs the closure at the head of its queue
GameThreadRuns ==
    \E io \in IoOutcomes :
        /\ IoInputs(io)
        /\ \/ RunLoadAvatar(io)
           \/ RunLoadAvatarDirect(io)
           \/ RunAddLocalApply(io)
           \/ RunApplyEpicLocal(io)

\* gameWrapper->Execute: the game thread keeps running what is handed to it
FairSpec == Spec /\ WF_vars(GameThreadRuns)

\* C13: once the upload staged for the Epic local identity has completed,
\* LoadAvatarDirect eventually runs on the game thread for that identity,
\* whether the upload succeeded or failed.
C13_UploadOutcomeNeverPreventsApply ==
    (last.op = "UploadResponse" /\ last.hit \in BOOLEAN)
        ~> (/\ last.op = "LoadAvatarDirect"
            /\ last.id = localId
            /\ last.thread = GameThread)

\* an upload has failed and its callback has handed the local apply to the
\* game thread
C13_Witness ==
    /\ last.op = "UploadResponse"
    /\ ~last.hit
    /\ localId.Platform = Epic
    /\ gameQueue # <<>>
    /\ gameQueue[Len(gameQueue)].op = "LoadAvatarDirect"
    /\ gameQueue[Len(gameQueue)].id = localId

\* C14: when the game thread processes a successful completion for a key
\* that is not resident and a stage of the load fails (the image cannot be
\* decoded or re-encoded, the temp file cannot be opened, written or read
\* back, the image or the texture cannot be loaded), the cache is left as it
\* was and SetAvatar is not called.
C14_FailedLoadLeavesCacheAndAppliesNothing ==
    [][\A io \in IoOutcomes :
          (/\ RunLoadAvatar(io)
           /\ ~FoundInCache(CacheKey(Head(gameQueue).id))
           /\ (io # "ok" \/ Head(gameQueue).data \notin ValidImages))
          => (avatar_cache' = avatar_cache /\ last'.applies = 0)]_vars

\* a load failed at the staging of a decoded image
C14_Witness ==
    /\ last.op = "LoadAvatar"
    /\ last.note = "stage"
    /\ last.applies = 0
    /\ ~IsAvatarCached(CacheKey(last.id))

C16_AppliesAndCacheWritesOnGameThread ==
    [][(\/ avatar_cache' # avatar_cache
        \/ last'.applies > 0
        \/ last'.op = "ApplyEpicLocal" /\ last'.note = "applied")
       => last'.thread = GameThread]_vars

\* the apply that the upload callback handed over from the HTTP thread has
\* replaced the cache entry and called SetAvatar on the game thread
C16_Witness ==
    /\ last.op = "LoadAvatarDirect"
    /\ localId.Platform = Epic
    /\ last.wrote = 1
    /\ last.applies = 1
    /\ last.thread = GameThread

\* C17: AddLocalAvatar only ever runs on the game thread.
C17_AddLocalAvatarOnGameThread ==
    last.op = "AddLocalAvatar" => last.thread = GameThread

\* C18: when no load is in progress (nothing handed to the game thread,
\* no request outstanding), no staging file exists.
C18_NoStagingFileLeftBehind ==
    (gameQueue = <<>> /\ inflight = EmptyBag) => files = {}

\* C19: a call of LoadForPRI sends at most one request, and neither the
\* completion of a fetch, whatever its status and body, nor the load that
\* follows it sends a request: a failed fetch is not sent again.
C19_OneRequestPerLoadNoRetry ==
    /\ last.op = "LoadForPRI" => last.sent <= 1
    /\ last.op \in {"AvatarResponse", "LoadAvatar"} => last.sent = 0

\* a fetch has failed and no request for the identity is outstanding
C19_Witness ==
    /\ last.op = "AvatarResponse"
    /\ ~FetchSucceeded(last.code, last.body)
    /\ last.sent = 0
    /\ Outstanding(last.id) = 0

-----------------------------------------------------------------------------
(* Cache-key derivation as a function of the identity *)

MaxIdLen == 2
MaxDerivations == 2

\* characters of an account id: one that SanitizeFilename keeps, one that it
\* replaces, and the replacement itself
KeyAlphabet == {"a", ":", "_"}

KeyIdStrings == UNION {[1..n -> KeyAlphabet] : n \in 1..MaxIdLen}

KeyIdentities == {NetId(Epic, 0, e) : e \in KeyIdStrings} \cup {Steam1, Psn1}

KeyInit == Init

\* LoadAvatar derives the key of an identity and stores a texture under it
DeriveKey(id) ==
    /\ nOps < MaxDerivations
    /\ nOps' = nOps + 1
    /\ LET idString == SanitizeFilename(UniqueNetIdToString(id))
       IN  avatar_cache' = CacheInsert(avatar_cache, idString,
                                       TexOf(BrightenImage("imgA", NullPtr)))
    /\ gameQueue' = Append(gameQueue, Closure("LoadAvatar", id, "imgA", NoPng))
    /\ last' = [Ev("LoadAvatar", id) EXCEPT !.wrote = 1, !.note = "loaded"]
    /\ UNCHANGED <<alive, localId, cvars, inflight, files, remoteWrites>>

KeyNext == \E id \in KeyIdentities : DeriveKey(id)

KeySpec == KeyInit /\ [][KeyNext]_vars

\* the identities whose key has been derived
Derived == {gameQueue[i].id : i \in DOMAIN gameQueue}

\* C20: identities that differ in platform or id get different cache keys:
\* the cache holds one entry for each identity a key was derived for.
C20_DistinctIdentitiesDistinctKeys ==
    /\ \A a, b \in Derived : a # b => CacheKey(a) # CacheKey(b)
    /\ Cardinality(DOMAIN avatar_cache) = Cardinality(Derived)

-----------------------------------------------------------------------------
(* The platform policy as a function of the settings and the local player *)

MaxCalls == 1

Steam2 == NetId(Steam, 2, <<>>)

PolicyIdentities == Identities \cup {Steam2, Other4}

\* any combination of the checkboxes, either kind of local player
PolicyInit ==
    /\ alive = TRUE
    /\ localId \in LocalIds
    /\ cvars \in [CVarNames -> BOOLEAN]
    /\ avatar_cache = EmptyCache
    /\ inflight = EmptyBag
    /\ gameQueue = <<>>
    /\ files = {}
    /\ remoteWrites = [k \in {} |-> 0]
    /\ nOps = 0
    /\ last = Ev("Init", localId)

\* AvatarDownloader::DownloadAvatar(id)
CallDownloadAvatar(id) ==
    /\ nOps < MaxCalls
    /\ nOps' = nOps + 1
    /\ LET reqs == DownloadAvatar(id)
       IN  /\ inflight' = inflight (+) SetToBag(reqs)
           /\ last' = [Ev("DownloadAvatar", id) EXCEPT !.sent = Cardinality(reqs),
                                                       !.hit = IsAllowed(id)]
    /\ UNCHANGED <<alive, localId, cvars, avatar_cache, gameQueue, files, remoteWrites>>

PolicyNext == \E id \in PolicyIdentities : CallDownloadAvatar(id)

PolicySpec == PolicyInit /\ [][PolicyNext]_vars

\* the enable flag of a platform, false for a platform without one
EnableFlag(p) ==
    CASE p = Steam -> cvars["Steam_Enabled"]
      [] p = Epic -> cvars["Epic_Enabled"]
      [] p = Dingo -> cvars["Xbox_Enabled"]
      [] p = PS4 -> cvars["PSN_Enabled"]
      [] p = NNX -> cvars["Switch_Enabled"]
      [] OTHER -> FALSE

\* C21: IsAllowed(id) is true exactly when the enable flag of id's platform
\* is true and, for a Steam identity only, the local player is not on Steam;
\* a platform without a flag is never allowed. DownloadAvatar sends a request
\* for an identity with a URL exactly when it is allowed.
C21_AllowedIffFlagAndNotOwnSteam ==
    last.op = "DownloadAvatar" =>
        LET p == last.id.Platform
            expected == EnableFlag(p) /\ (p = Steam => localId.Platform # Steam)
        IN  /\ last.hit = expected
            /\ p # Dingo => (last.sent = 1 <=> expected)

\* a Steam identity is refused because the local player is on Steam, although
\* the Steam flag is on
C21_Witness ==
    /\ last.op = "DownloadAvatar"
    /\ last.id = Steam2
    /\ localId.Platform = Steam
    /\ cvars[CVAR_STEAM_ENABLED]
    /\ ~last.hit
    /\ last.sent = 0

-----------------------------------------------------------------------------
(* RLProfilePicturesImageProcessor::BrightenImage on pixels *)

\* Naturals beyond the machine word, as little-endian sequences of limbs
Base == 10000

RECURSIVE MulCarry(_, _, _)
MulCarry(n, k, carry) ==
    IF n = <<>>
    THEN IF carry = 0 THEN <<>>
         ELSE <<carry % Base>> \o MulCarry(<<>>, k, carry \div Base)
    ELSE LET v == Head(n) * k + carry
         IN  <<v % Base>> \o MulCarry(Tail(n), k, v \div Base)

\* n * k^e
RECURSIVE TimesPow(_, _, _)
TimesPow(n, k, e) == IF e = 0 THEN n ELSE TimesPow(MulCarry(n, k, 0), k, e - 1)

Limb(n, j) == IF j <= Len(n) THEN n[j] ELSE 0

\* a <= b, comparing from limb j down
RECURSIVE LeqFrom(_, _, _)
LeqFrom(a, b, j) ==
    IF j = 0 THEN TRUE
    ELSE IF Limb(a, j) < Limb(b, j) THEN TRUE
    ELSE IF Limb(a, j) > Limb(b, j) THEN FALSE
    ELSE LeqFrom(a, b, j - 1)

Leq(a, b) == LeqFrom(a, b, IF Len(a) > Len(b) THEN Len(a) ELSE Len(b))

\* GAMMA_CORRECTION_EXPONENT = 0.4545454545f, the float next to 5/11
GammaNum == 5
GammaDen == 11

\* y <= 255 * (i/255)^(num/den), that is y^den * 255^num <= 255^den * i^num
AtMostPow(y, i, num, den) ==
    Leq(TimesPow(TimesPow(<<1>>, y, den), 255, num),
        TimesPow(TimesPow(<<1>>, 255, den), i, num))

\* the largest y in lo..hi with y <= 255 * (i/255)^(num/den)
RECURSIVE FloorPow(_, _, _, _, _)
FloorPow(i, num, den, lo, hi) ==
    IF lo = hi THEN lo
    ELSE LET mid == (lo + hi + 1) \div 2
         IN  IF AtMostPow(mid, i, num, den)
             THEN FloorPow(i, num, den, mid, hi)
             ELSE FloorPow(i, num, den, lo, mid - 1)

\* a table entry built with the decoding exponent 2.2
GammaEntryDecoding(i) == FloorPow(i, GammaDen, GammaNum, 0, 255)

\* (uint8_t)(powf((float)i / 255.0f, GAMMA_CORRECTION_EXPONENT) * 255.0f):
\* the conversion truncates
GammaEntry(i) == FloorPow(i, GammaNum, GammaDen, 0, 255)

srgb_lookup == [i \in 0..255 |-> GammaEntry(i)]

\* No entry depends on the rounding of the float computation: but for 0 and
\* 255, where powf is exact, 255 * (i/255)^(5/11) is further than one part in
\* 10^5 from the integers next to it.
RoundingTolerance == 10000

LookupIsExact ==
    \A i \in 1..254 :
        LET y == srgb_lookup[i]
            bound == TimesPow(TimesPow(<<1>>, 255, GammaDen), i, GammaNum)
            pow(z) == TimesPow(TimesPow(<<1>>, z, GammaDen), 255, GammaNum)
        IN  /\ Leq(MulCarry(pow(y), RoundingTolerance, 0),
                   MulCarry(bound, RoundingTolerance - 1, 0))
            /\ ~Leq(MulCarry(pow(y + 1), RoundingTolerance, 0),
                    MulCarry(bound, RoundingTolerance + 1, 0))
\* An encoded image is known by what the decoder finds in it: its
\* dimensions, the channels stored in the file and the 8-bit samples, pixel
\* after pixel. JunkFile is data that is no image.
ImageFile(format, width, height, channels, pixels) ==
    [format |-> format, width |-> width, height |-> height,
     channels |-> channels, pixels |-> pixels]

JunkFile == ImageFile("junk", 0, 0, 0, <<>>)

\* stb_image: luma of an RGB pixel
ComputeY(r, g, b) == (r * 77 + g * 150 + 29 * b) \div 256

\* stb_image: one pixel converted to req_comp components
ConvertPixel(p, req_comp) ==
    LET n == Len(p)
        gray == IF n >= 3 THEN ComputeY(p[1], p[2], p[3]) ELSE p[1]
        alpha == IF n = 2 THEN p[2] ELSE IF n = 4 THEN p[4] ELSE 255
        rgb == IF n >= 3 THEN <<p[1], p[2], p[3]>> ELSE <<p[1], p[1], p[1]>>
    IN  CASE req_comp = n -> p
          [] req_comp = 1 -> <<gray>>
          [] req_comp = 2 -> <<gray, alpha>>
          [] req_comp = 3 -> rgb
          [] OTHER -> rgb \o <<alpha>>

RECURSIVE ConvertFrom(_, _, _, _)
ConvertFrom(pixels, n, req_comp, i) ==
    IF (i - 1) * n >= Len(pixels) THEN <<>>
    ELSE ConvertPixel(SubSeq(pixels, (i - 1) * n + 1, i * n), req_comp)
            \o ConvertFrom(pixels, n, req_comp, i + 1)

\* stbi_load_from_memory(data, size, &width, &height, &channels_in_file, req_comp):
\* null when the data is no image; else the samples with req_comp components
\* a pixel, or with the components of the file when req_comp is 0
stbi_load_from_memory(data, req_comp) ==
    IF data = JunkFile
    THEN [ok |-> FALSE, width |-> 0, height |-> 0, channels_in_file |-> 0,
          pixels |-> <<>>]
    ELSE [ok |-> TRUE, width |-> data.width, height |-> data.height,
          channels_in_file |-> data.channels,
          pixels |-> IF req_comp = 0 THEN data.pixels
                     ELSE ConvertFrom(data.pixels, data.channels, req_comp, 1)]

\* stbi_write_png_to_func(..., width, height, comp, data, stride)
stbi_write_png_to_func(width, height, comp, data) ==
    ImageFile("png", width, height, comp, data)

\* a choice of output channels that always writes RGBA
OutChannelsAlwaysRGBA(channels_in_file) == 4

\* "prefer 4 for RGBA if available, otherwise use channels_in_file"
OutChannels(channels_in_file) ==
    LET out_channels == IF channels_in_file >= 4 THEN 4 ELSE channels_in_file
    IN  IF out_channels = 0 THEN 3 ELSE out_channels

\* the loop over the samples: the table is applied where c < 3
ApplyLookup(pixels, channels) ==
    [k \in 1..Len(pixels) |->
        IF (k - 1) % channels < 3 THEN srgb_lookup[pixels[k]] ELSE pixels[k]]

\* BrightenImage on the bytes: ok is false when it throws
BrightenImageBytes(pngData, brightnessEnabled) ==
    LET raw == stbi_load_from_memory(pngData, 0)
        out_channels == OutChannels(raw.channels_in_file)
        converted == IF raw.channels_in_file # out_channels
                     THEN stbi_load_from_memory(pngData, out_channels)
                     ELSE raw
    IN  IF ~raw.ok THEN [ok |-> FALSE, data |-> JunkFile]
        ELSE IF SkipsBrightening(brightnessEnabled)
        THEN [ok |-> TRUE,
              data |-> stbi_write_png_to_func(raw.width, raw.height, out_channels,
                                               converted.pixels)]
        ELSE [ok |-> TRUE,
              data |-> stbi_write_png_to_func(raw.width, raw.height,
                                               raw.channels_in_file,
                                               ApplyLookup(raw.pixels,
                                                           raw.channels_in_file))]

MaxWidth == 1

\* samples: the ends of the range and one value the table moves
SampleBytes == {0, 128, 255}

\* PNG stores 1 to 4 channels, JPEG 1 or 3
InputFiles ==
    {JunkFile} \cup
    UNION {{ImageFile(f, w, 1, c, p) : p \in [1..(w * c) -> SampleBytes]} :
             f \in {"png"}, w \in 1..MaxWidth, c \in 1..4} \cup
    UNION {{ImageFile(f, w, 1, c, p) : p \in [1..(w * c) -> SampleBytes]} :
             f \in {"jpeg"}, w \in 1..MaxWidth, c \in {1, 3}}

\* one call of BrightenImage is pending, on any input and any flag pointer
ImageInit ==
    /\ alive = TRUE
    /\ localId = Steam1
    /\ cvars = [n \in CVarNames |-> TRUE]
    /\ avatar_cache = EmptyCache
    /\ inflight = EmptyBag
    /\ \E f \in InputFiles, e \in {NullPtr, PtrTo(TRUE), PtrTo(FALSE)} :
          gameQueue = <<[op |-> "BrightenImage", pngData |-> f,
                         brightnessEnabled |-> e]>>
    /\ files = {}
    /\ remoteWrites = [k \in {} |-> 0]
    /\ nOps = 0
    /\ last = [op |-> "Init", id |-> localId]

CallBrightenImage ==
    /\ gameQueue # <<>>
    /\ LET c == Head(gameQueue)
           r == BrightenImageBytes(c.pngData, c.brightnessEnabled)
       IN  last' = [op |-> "BrightenImage", id |-> localId, pngData |-> c.pngData,
                    brightnessEnabled |-> c.brightnessEnabled,
                    ok |-> r.ok, data |-> r.data]
    /\ gameQueue' = Tail(gameQueue)
    /\ UNCHANGED <<alive, localId, cvars, avatar_cache, inflight, files, remoteWrites, nOps>>

ImageNext == CallBrightenImage

ImageSpec == ImageInit /\ [][ImageNext]_vars

\* BrightenImage has returned from the path that re-encodes only
ReencodedOnly ==
    /\ last.op = "BrightenImage"
    /\ last.brightnessEnabled = PtrTo(FALSE)
    /\ last.pngData # JunkFile

\* BrightenImage has returned from the path that applies the table
Brightened ==
    /\ last.op = "BrightenImage"
    /\ last.brightnessEnabled # PtrTo(FALSE)
    /\ last.pngData # JunkFile

\* C22: with brightness disabled, BrightenImage returns a PNG that decodes to
\* the width, height, channel count and samples the input decodes to.
C22_DisabledPathKeepsImage ==
    ReencodedOnly =>
        /\ last.ok
        /\ last.data.format = "png"
        /\ LET in == stbi_load_from_memory(last.pngData, 0)
               out == stbi_load_from_memory(last.data, 0)
           IN  /\ out.ok
               /\ out.width = in.width
               /\ out.height = in.height
               /\ out.channels_in_file = in.channels_in_file
               /\ out.pixels = in.pixels

\* a gray JPEG whose sample the table would move came back as a PNG with the
\* same sample
C22_Witness ==
    /\ ReencodedOnly
    /\ last.pngData.format = "jpeg"
    /\ last.pngData.channels = 1
    /\ last.pngData.pixels[1] = 128
    /\ last.data.format = "png"
    /\ last.data.pixels[1] = 128

\* C23: the lookup table maps every byte below 255 to a byte that is at least
\* as large, 255 to 255 and 0 to 0, whatever the rounding of the float
\* computation; no sample of a brightened image is below the input's.
C23_LookupNeverDarkens ==
    /\ \A v \in 0..254 : srgb_lookup[v] >= v /\ srgb_lookup[v] <= 255
    /\ srgb_lookup[255] = 255
    /\ srgb_lookup[0] = 0
    /\ LookupIsExact
    /\ Brightened =>
          \A k \in 1..Len(last.pngData.pixels) :
              last.data.pixels[k] >= last.pngData.pixels[k]

\* an RGB image went through the table, which raised a sample of 128
C23_Witness ==
    /\ Brightened
    /\ last.pngData.channels = 3
    /\ last.pngData.pixels[1] = 128
    /\ last.data.pixels[1] = srgb_lookup[128]
    /\ srgb_lookup[128] > 128

\* the positions of the alpha samples of an image with `channels` channels
AlphaPositions(pixels, channels) ==
    {k \in 1..Len(pixels) : channels \in {2, 4} /\ k % channels = 0}

\* C24: on the brightness-enabled path the alpha sample of every pixel is
\* left as it was, for gray+alpha as for RGBA images.
C24_AlphaUntouched ==
    Brightened =>
        \A k \in AlphaPositions(last.pngData.pixels, last.pngData.channels) :
            last.data.pixels[k] = last.pngData.pixels[k]

\* C40: BrightenImage skips the gamma curve exactly when the brightness
\* setting is available and false; when the setting is unavailable (a null
\* pointer) it applies the gamma curve, as it does when the setting is true.
C40_NullMeansBrighten ==
    (last.op = "BrightenImage" /\ last.pngData # JunkFile) =>
        LET in == stbi_load_from_memory(last.pngData, 0)
            out == stbi_load_from_memory(last.data, 0)
        IN  /\ last.ok
            /\ out.ok
            /\ out.pixels =
                  IF last.brightnessEnabled = PtrTo(FALSE)
                  THEN in.pixels
                  ELSE ApplyLookup(in.pixels, in.channels_in_file)

\* called with a null pointer, BrightenImage has raised a sample of 128
C40_Witness ==
    /\ last.op = "BrightenImage"
    /\ last.brightnessEnabled = NullPtr
    /\ last.pngData.pixels[1] = 128
    /\ last.data.pixels[1] = srgb_lookup[128]
    /\ last.data.pixels[1] # 128

-----------------------------------------------------------------------------
(* Claims on the cache, the local player and the hooks *)

\* C25: when the game thread has processed the successful completion of a
\* load, the cache entry of the identity's key holds the image that this
\* completion carried: of two loads, the one processed last wins.
C25_LastCompletedLoadWins ==
    [][(/\ RunLoadAvatar("ok")
        /\ Head(gameQueue).data \in ValidImages)
       => LET key == CacheKey(Head(gameQueue).id)
          IN  /\ key \in DOMAIN avatar_cache'
              /\ avatar_cache'[key].img = Head(gameQueue).data]_vars

\* C26: no request that fetches an avatar is ever outstanding for the
\* identity of the local player.
C26_NoFetchForLocalIdentity ==
    \A r \in BagToSet(inflight) :
        r.kind \in {"GET", "GETLOCAL"} => r.id # localId

\* C27: LoadForPRI skips an identity as the local player only when its key,
\* platform included, is the key of the local identity.
C27_SkippedAsLocalOnlyIfSameKey ==
    (last.op = "LoadForPRI" /\ last.note = "local") =>
        /\ last.id.Platform = localId.Platform
        /\ CacheKey(last.id) = CacheKey(localId)

\* C28: a name-based (Xbox) fetch is sent only by the hook of ReplicatedEvent
\* with VarName "PlayerName".
C28_NameFetchOnlyOnRename ==
    (last.op = "LoadForPRI" /\ last.note = "xbox" /\ last.sent > 0) =>
        last.event = "ReplicatedEvent"

\* C29: LoadForPRI for an Xbox identity whose key is resident sends no request
\* and applies the cached texture.
C29_ResidentXboxKeyServedFromCache ==
    (/\ last.op = "LoadForPRI"
     /\ last.id.Platform = Dingo
     /\ last.id # localId
     /\ IsAvatarCached(CacheKey(last.id)))
        => (last.sent = 0 /\ last.applies = 1)

\* the uploads in flight whose staged file is `path`: AddLocalAvatar stages
\* every upload at GetBrightenedLocalAvatarPath()
UploadsStagedAt(path) ==
    IF path = GetBrightenedLocalAvatarPath
    THEN CopiesOver({r \in BagToSet(inflight) : r.kind = "POST"})
    ELSE 0

\* C30: no staging file is in use by two operations in flight.
C30_StagingFileHasOneOwner ==
    \A path \in files : UploadsStagedAt(path) <= 1

-----------------------------------------------------------------------------
(* The scratch directory and the directories of the staging paths *)

\* the directory std::filesystem::path(TEMP_DIRECTORY) names
GetTempDirectory == Path("C:/Temp", <<>>)

\* the directory a staging path lies in: the scratch directory itself, or the
\* subdirectory the prefix component of the path names
ParentPath(p) == IF p.dir = "" THEN GetTempDirectory ELSE Path(p.dir, <<>>)

TempSubdirectories == {ParentPath(GetTempAvatarPath(<<>>)),
                       ParentPath(GetTempLocalAvatarPath(<<>>))}

\* the directory trees a machine can have when the plugin loads: a
\* subdirectory only inside an existing scratch directory
InitialDisks ==
    {d \in SUBSET ({GetTempDirectory} \cup TempSubdirectories) :
        d # {} => GetTempDirectory \in d}

\* what create_directory can do: make the one directory, or throw
CreateOutcomes == {"created", "filesystem_error"}

\* EnsureTempDirectoryExists: true if the directory is there, else one
\* create_directory call for TEMP_DIRECTORY alone, false if it throws
EnsureTempDirectoryExists(disk, outcome) ==
    IF GetTempDirectory \in disk
    THEN [ok |-> TRUE, disk |-> disk]
    ELSE IF outcome = "created"
    THEN [ok |-> TRUE, disk |-> disk \cup {GetTempDirectory}]
    ELSE [ok |-> FALSE, disk |-> disk]

\* every path the plugin later opens for writing
StagingPaths ==
    {GetTempAvatarPath(CacheKey(id)) : id \in PolicyIdentities}
        \cup {GetTempLocalAvatarPath(id.EpicAccountId) : id \in {EpicA, EpicB}}
        \cup {GetBrightenedLocalAvatarPath}

\* std::ofstream opens a file only in a directory that exists
OpenForWriting(disk, p) == ParentPath(p) \in disk

DiskInit ==
    /\ alive = TRUE
    /\ localId \in LocalIds
    /\ cvars = [n \in CVarNames |-> TRUE]
    /\ avatar_cache = EmptyCache
    /\ inflight = EmptyBag
    /\ gameQueue = <<>>
    /\ files \in InitialDisks
    /\ remoteWrites = EmptyCache
    /\ nOps = 0
    /\ last = [op |-> "Init", absent |-> FALSE, ok |-> FALSE, path |-> NoPath]

\* onLoad, up to its EnsureTempDirectoryExists call
onLoad(outcome) ==
    /\ nOps = 0
    /\ nOps' = 1
    /\ LET r == EnsureTempDirectoryExists(files, outcome)
       IN  /\ files' = r.disk
           /\ last' = [op |-> "onLoad", absent |-> GetTempDirectory \notin files,
                       ok |-> r.ok, path |-> NoPath]
           /\ gameQueue' = <<last'>>
    /\ UNCHANGED <<alive, localId, cvars, avatar_cache, inflight, remoteWrites>>

\* a later load opens its staging file
OpenStagingFile(p) ==
    /\ nOps = 1
    /\ last' = [op |-> "open", absent |-> gameQueue[1].absent,
                ok |-> OpenForWriting(files, p), path |-> p]
    /\ UNCHANGED <<alive, localId, cvars, avatar_cache, inflight, gameQueue, files,
                   remoteWrites, nOps>>

DiskNext ==
    \/ \E outcome \in CreateOutcomes : onLoad(outcome)
    \/ \E p \in StagingPaths : OpenStagingFile(p)

DiskSpec == DiskInit /\ [][DiskNext]_vars

\* C31: once onLoad has created the scratch directory on a machine where it
\* was absent, the directory of every staging path exists, so that no staging
\* file fails to open for lack of its directory.
C31_StagingDirectoriesExist ==
    (nOps = 1 /\ gameQueue[1].absent /\ gameQueue[1].ok) =>
        /\ \A p \in StagingPaths : ParentPath(p) \in files
        /\ last.op = "open" => last.ok

-----------------------------------------------------------------------------
(* Claims about the retrieval URLs, the cache and the enabled setting *)

\* the avatar-retrieval requests a step sends
SentRetrievals ==
    {req \in BagToSet(inflight') :
        /\ req.kind \in {"GET", "GETLOCAL"}
        /\ CopiesIn(req, inflight') > CopiesIn(req, inflight)}

\* C32: every avatar-retrieval GET (by id, by Xbox name, and the startup fetch
\* of the local Epic avatar) carries a default_enabled query parameter equal
\* to the 'load default avatars' setting at the moment its URL is built.
C32_RetrievalsCarryDefaultEnabled ==
    [][\A req \in SentRetrievals :
          req.url.default_enabled =
              IF cvars[CVAR_LOAD_DEFAULT_AVATARS] THEN "true" ELSE "false"]_vars

-----------------------------------------------------------------------------
(* Teardown: the AvatarManager is destroyed while work is outstanding *)

\* ~AvatarManager: ClearCache, then the members are destroyed with the
\* object. Nothing cancels the HTTP requests in flight or the closures handed
\* to the game thread, whose lambdas hold the raw this pointer.
DestroyAvatarManager ==
    /\ alive
    /\ alive' = FALSE
    /\ avatar_cache' = ClearCache(avatar_cache)
    /\ remoteWrites' = [k \in {} |-> 0]
    /\ last' = Ev("~AvatarManager", localId)
    /\ UNCHANGED <<localId, cvars, inflight, gameQueue, files, nOps>>

\* the HTTP completions and the closures of the game thread.
\* One that runs after the destruction dereferences a dangling this. One
\* outcome: the freed storage still reads as the object did, and the lambda
\* runs as it does on a live object.
CompletionSteps ==
    \/ \E req \in Requests, c \in Completions : AvatarResponse(req, c[1], c[2])
    \/ \E req \in Requests, c \in {200, 404}, d \in UploadBodies :
          UploadResponse(req, c, d)
    \/ \E io \in IoOutcomes : IoInputs(io) /\ RunLoadAvatar(io)
    \/ \E io \in IoOutcomes : IoInputs(io) /\ RunLoadAvatarDirect(io)
    \/ \E io \in IoOutcomes : IoInputs(io) /\ RunAddLocalApply(io)
    \/ \E req \in Requests, c \in Completions, f \in FallbackFiles, hostOk \in BOOLEAN :
          StartupInputs(c[1], c[2], f, hostOk) /\ StartupResponse(req, c[1], c[2], f, hostOk)
    \/ \E io \in IoOutcomes : IoInputs(io) /\ RunApplyEpicLocal(io)

\* The other outcome: the access faults and the process ends, with all the
\* outstanding work.
AccessViolation ==
    /\ inflight # EmptyBag \/ gameQueue # <<>>
    /\ inflight' = EmptyBag
    /\ gameQueue' = <<>>
    /\ last' = Ev("AccessViolation", localId)
    /\ UNCHANGED <<alive, localId, cvars, avatar_cache, files, remoteWrites, nOps>>

LifeNext ==
    \/ alive /\ Next
    \/ DestroyAvatarManager
    \/ ~alive /\ CompletionSteps
    \/ ~alive /\ AccessViolation

LifeSpec == Init /\ [][LifeNext]_vars

\* the steps that load or apply an avatar for the identity they record
LoadOps == {"LoadForPRI", "LoadAvatar", "LoadAvatarDirect", "AddLocalAvatar",
            "AddLocalApply", "ApplyEpicLocal"}

\* C33: a load or apply for one key never removes or changes the cache entry
\* of another key. An entry changes only in a load of its own key, is erased
\* only by the removal of the local avatar, and the cache is emptied only by
\* ClearCache in the destructor, never as part of a load.
C33_LoadsLeaveOtherKeys ==
    [][\A k \in DOMAIN avatar_cache :
          (k \notin DOMAIN avatar_cache' \/ avatar_cache'[k] # avatar_cache[k]) =>
              \/ last'.op = "~AvatarManager" /\ avatar_cache' = EmptyCache
              \/ /\ last'.op = "RemoveLocalAvatar"
                 /\ k = UniqueNetIdToString(last'.id)
                 /\ k \notin DOMAIN avatar_cache'
              \/ /\ last'.op \in LoadOps
                 /\ k = CacheKey(last'.id)
                 /\ k \in DOMAIN avatar_cache']_vars

\* a load has inserted its image while another key is cached
C33_Witness ==
    /\ last.op \in LoadOps
    /\ last.wrote = 1
    /\ \E k \in DOMAIN avatar_cache : k # CacheKey(last.id)

\* C35: once the AvatarManager has been destroyed, no completion of a fetch or
\* an upload still in flight, and no closure it queued, inserts into the cache
\* or applies an image.
C35_NothingAfterTeardown ==
    [][~alive => (avatar_cache' = avatar_cache /\ last'.applies = 0)]_vars


\* the last step handed an image to the player's avatar: through SetAvatar, or
\* directly as the startup load of the local Epic avatar does
ImageApplied ==
    \/ last.applies = 1
    \/ last.op = "ApplyEpicLocal" /\ last.note = "applied"

\* C34: whenever an image is applied for an identity, it is the entry the
\* cache holds under the identity's key at that moment: no path applies an
\* image that was not inserted into the cache.
C34_AppliedImageIsCached ==
    ImageApplied =>
        /\ IsAvatarCached(CacheKey(last.id))
        /\ GetCachedAvatar(CacheKey(last.id)) = last.tex


\* The user selects an avatar and then removes it: AddLocalAvatar is the
\* first event, RemoveLocalAvatar the second and last, once the closure of the
\* selection has run (an upload it started may still be in flight).
RemovalNext ==
    \/ \E f \in LocalFiles, hostOk \in BOOLEAN :
          nOps = 0 /\ LocalInputs(f, hostOk) /\ AddLocalAvatar(f, hostOk)
    \/ nOps = 1 /\ gameQueue = <<>> /\ RemoveLocalAvatar(TRUE)
    \/ \E req \in Requests, c \in {200, 404}, d \in UploadBodies :
          UploadResponse(req, c, d)
    \/ \E io \in IoOutcomes : IoInputs(io) /\ RunLoadAvatarDirect(io)
    \/ \E io \in IoOutcomes : IoInputs(io) /\ RunAddLocalApply(io)

\* any saved configuration of the checkboxes
RemovalSpec == PolicyInit /\ [][RemovalNext]_vars

\* a step has cached or applied an image for the local player
LocalAvatarRestored ==
    /\ last.id = localId
    /\ last.wrote = 1 \/ ImageApplied

\* C36: after RemoveLocalAvatar the local avatar stays detached and absent
\* from the cache until a new AddLocalAvatar: the completion of an upload that
\* was started before the removal neither re-applies nor re-caches it.
\* (In RemovalSpec the removal is the second and last event.)
C36_RemovalIsNotUndone ==
    nOps = 2 => ~LocalAvatarRestored

\* The user selects image A and then image B for the local avatar:
\* AddLocalAvatar is called twice, and no other event follows.
ReselectNext ==
    \/ \E hostOk \in BOOLEAN : nOps = 0 /\ AddLocalAvatar("imgA", hostOk)
    \/ \E hostOk \in BOOLEAN : nOps = 1 /\ AddLocalAvatar("imgB", hostOk)
    \/ \E req \in Requests, c \in {200, 404}, d \in UploadBodies :
          UploadResponse(req, c, d)
    \/ \E io \in IoOutcomes : IoInputs(io) /\ RunLoadAvatarDirect(io)
    \/ \E io \in IoOutcomes : IoInputs(io) /\ RunAddLocalApply(io)

ReselectSpec == Init /\ [][ReselectNext]_vars

\* both uploads have completed and every closure has run, the last of them a
\* load that cached and applied its image; the load of image b has succeeded
\* too: it is that last load, or it made the entry the last load found
BothApplied(b) ==
    /\ nOps = 2
    /\ inflight = EmptyBag
    /\ gameQueue = <<>>
    /\ last.op = "LoadAvatarDirect"
    /\ last.wrote = 1
    /\ last.tex.img = b \/ last.old.img = b

\* C37: when AddLocalAvatar is called for the Epic local identity with image A
\* and then with image B, then once both uploads have completed and their
\* closures have run, the image cached and applied is B, whatever the order in
\* which the two uploads complete.
C37_LastSelectionWins ==
    (localId.Platform = Epic /\ BothApplied("imgB")) =>
        /\ GetCachedAvatar(CacheKey(localId)).img = "imgB"
        /\ last.tex.img = "imgB"

\* the keys the plugin looks up: those in the cache, and for every identity
\* the sanitized and the unsanitized id string
LookupKeys ==
    DOMAIN avatar_cache
        \cup {CacheKey(id) : id \in Identities}
        \cup {UniqueNetIdToString(id) : id \in Identities}

\* C38: every entry of the cache holds a non-null texture handle, so that
\* IsAvatarCached(key) is true exactly when GetCachedAvatar(key) is non-null;
\* the cache, a map, holds at most one entry for a key.
C38_NoNullEntries ==
    /\ \A k \in DOMAIN avatar_cache : avatar_cache[k] # NullTex
    /\ \A k \in LookupKeys :
          /\ IsAvatarCached(k) <=> GetCachedAvatar(k) # NullTex
          /\ IsAvatarCached(k) <=> k \in DOMAIN avatar_cache

\* a load has failed to obtain a texture and the cache, which holds an entry
\* of another key, has none for the key of the load
C38_Witness ==
    /\ last.op \in {"LoadAvatar", "LoadAvatarDirect", "AddLocalApply"}
    /\ last.note = "stage"
    /\ avatar_cache # EmptyCache
    /\ ~IsAvatarCached(CacheKey(last.id))

-----------------------------------------------------------------------------
(* The events of the host while the plugin is enabled or disabled *)

\* the Enabled CVar holds what the saved configuration holds
HookInit ==
    /\ alive = TRUE
    /\ localId \in LocalIds
    /\ cvars \in {[[n \in CVarNames |-> TRUE] EXCEPT ![CVAR_ENABLED] = e] : e \in BOOLEAN}
    /\ avatar_cache = EmptyCache
    /\ inflight = EmptyBag
    /\ gameQueue = <<>>
    /\ files = {}
    /\ remoteWrites = [k \in {} |-> 0]
    /\ nOps = 0
    /\ last = Ev("Init", localId)

\* "Function TAGame.GFxData_MainMenu_TA.OnEnteredMainMenu": nothing when
\* disabled; LoadStartupAvatar when no avatar path is selected; else
\* AddLocalAvatar of the selected file
OnEnteredMainMenu(file, hostOk) ==
    IF ~enabled
    THEN /\ Event
         /\ last' = [Ev("OnEnteredMainMenu", localId) EXCEPT !.note = "disabled"]
         /\ UNCHANGED <<alive, localId, cvars, avatar_cache, inflight, gameQueue,
                        files, remoteWrites>>
    ELSE IF file = "nopath" THEN LoadStartupAvatar(file, hostOk)
    ELSE AddLocalAvatar(file, hostOk)

\* the events the plugin hooks, the startup load of onLoad, the Enabled
\* checkbox, and the completions of what they started
HookNext ==
    \/ SetCVar(CVAR_ENABLED)
    \/ \E pri \in PRIs, v \in {"PlayerName", "Score"}, pcOk \in BOOLEAN :
          \E l \in LocalPRIAnswers(pri) :
             HookInputs(pri, v, l, pcOk) /\ ReplicatedEvent(pri, v, l, pcOk)
    \/ \E pri \in PRIs, pcOk \in BOOLEAN :
          \E l \in LocalPRIAnswers(pri) :
             HookInputs(pri, "PlayerName", l, pcOk) /\ UpdatePlayerAvatar(pri, l, pcOk)
    \/ \E f \in FallbackFiles, hostOk \in BOOLEAN : OnEnteredMainMenu(f, hostOk)
    \/ \E f \in FallbackFiles, hostOk \in BOOLEAN : LoadStartupAvatar(f, hostOk)
    \/ CompletionSteps

HookSpec == HookInit /\ [][HookNext]_vars

\* C39: while the Enabled setting is false, no replication event
\* (ReplicatedEvent, UpdatePlayerAvatar), no main-menu event and no startup
\* load issues an HTTP request, changes the cache or applies an image.
C39_DisabledEventsDoNothing ==
    [][(~cvars[CVAR_ENABLED] /\ nOps' = nOps + 1 /\ cvars' = cvars) =>
          /\ inflight' = inflight
          /\ avatar_cache' = avatar_cache
          /\ last'.sent = 0
          /\ last'.applies = 0]_vars

\* a replication event for a remote player has returned at the disabled test
C39_Witness ==
    /\ ~cvars[CVAR_ENABLED]
    /\ last.op = "HookReturns"
    /\ last.note = "disabled"

=============================================================================
